---- MODULE Spec2Model ----
(***************************************************************************)
(* A model of rewriter.py: the statement-splicing NodeTransformer, the     *)
(* Optimizer rule that lowers Add/Mult binary operations, and optimize(),  *)
(* the pipeline that parses, strips decorators, rewrites and compiles.     *)
(*                                                                         *)
(* A tree node is the record [k, id, op, n, f]:                            *)
(*   k   the node class name (type(node).__name__)                         *)
(*   id  its string scalar (Name.id, Attribute.attr, Str.s, alias.name,    *)
(*       FunctionDef.name), "" when it has none                            *)
(*   op  its field-less child node (BinOp.op, AugAssign.op, Name.ctx),     *)
(*       by class name; visiting such a node returns it unchanged          *)
(*   n   its integer scalar (Num.n)                                        *)
(*   f   its remaining fields in ast.iter_fields order, each a record      *)
(*       [list, x]: a list field holds the elements x, a single-node field *)
(*       holds <<node>>                                                    *)
(* Source locations (lineno, node_path, copy_location) are left out: no    *)
(* operation modelled here reads them.                                     *)
(***************************************************************************)
EXTENDS Integers, Sequences, FiniteSets, TLC

VARIABLES pc, fn, module, err, nonce, res, retriggered, args, heap, env, out, result, touched

vars == <<pc, fn, module, err, nonce, res, retriggered, args, heap, env, out, result, touched>>

(***************************************************************************)
(* Bounds of the model                                                     *)
(***************************************************************************)
\* the most binary operations of a generated arithmetic expression
MaxOps == 2

\* the most constructors of a generated expression with subscripts, attributes, calls
MaxSize == 3

\* the most statements of a generated function body, nested ones counted
MaxStmts == 3

MaxDecorators == 3

\* the argument values are 2..MaxVal
MaxVal == 3

Values == 2..MaxVal

(***************************************************************************)
(* Tree constructors                                                       *)
(***************************************************************************)
One(x) == [list |-> FALSE, x |-> <<x>>]

Lst(xs) == [list |-> TRUE, x |-> xs]

Node(k, id, op, n, f) == [k |-> k, id |-> id, op |-> op, n |-> n, f |-> f]

Name(id, ctx) == Node("Name", id, ctx, 0, <<>>)

Num(n) == Node("Num", "", "", n, <<>>)

Str(s) == Node("Str", s, "", 0, <<>>)

BinOp(left, op, right) == Node("BinOp", "", op, 0, <<One(left), One(right)>>)

Attribute(value, attr, ctx) == Node("Attribute", attr, ctx, 0, <<One(value)>>)

\* Subscript.slice is Index(value): the Index wrapper is folded into the field.
Subscript(value, index, ctx) == Node("Subscript", "", ctx, 0, <<One(value), One(index)>>)

Call(func, cargs, keywords) == Node("Call", "", "", 0, <<One(func), Lst(cargs), Lst(keywords)>>)

Return(value) == Node("Return", "", "", 0, <<One(value)>>)

ExprStmt(value) == Node("Expr", "", "", 0, <<One(value)>>)

Assign(targets, value) == Node("Assign", "", "", 0, <<Lst(targets), One(value)>>)

AugAssign(target, op, value) == Node("AugAssign", "", op, 0, <<One(target), One(value)>>)

If(test, body, orelse) == Node("If", "", "", 0, <<One(test), Lst(body), Lst(orelse)>>)

While(test, body, orelse) == Node("While", "", "", 0, <<One(test), Lst(body), Lst(orelse)>>)

Alias(name) == Node("alias", name, "", 0, <<>>)

Import(names) == Node("Import", "", "", 0, <<Lst(names)>>)

Arg(name) == Node("arg", name, "", 0, <<>>)

Arguments(params) == Node("arguments", "", "", 0, <<Lst(params)>>)

FunctionDef(name, params, body, decorator_list) ==
    Node("FunctionDef", name, "", 0, <<One(Arguments(params)), Lst(body), Lst(decorator_list)>>)

Module(body) == Node("Module", "", "", 0, <<Lst(body)>>)

Left(node) == node.f[1].x[1]

Right(node) == node.f[2].x[1]

(***************************************************************************)
(* Node classes                                                            *)
(***************************************************************************)
Statement ==
    {"FunctionDef", "AsyncFunctionDef", "ClassDef", "Return", "Delete", "Assign",
     "AugAssign", "For", "AsyncFor", "While", "If", "With", "AsyncWith", "Raise",
     "Try", "Assert", "Import", "ImportFrom", "Global", "Nonlocal", "Expr", "Pass",
     "Break", "Continue"}

LValue == {"Attribute", "Subscript", "Name"}

IsStatement(node) == node.k \in Statement

IsLValue(node) == node.k \in LValue

AllStatements(values) == \A i \in 1..Len(values) : IsStatement(values[i])

(***************************************************************************)
(* ast.dump and '%03d'                                                     *)
(***************************************************************************)
RECURSIVE dump(_)

RECURSIVE dump_list(_, _)

dump_list(values, i) ==
    IF i > Len(values) THEN ""
    ELSE dump(values[i]) \o (IF i < Len(values) THEN ", " ELSE "") \o dump_list(values, i + 1)

RECURSIVE decimal(_)

Digit(d) ==
    CASE d = 0 -> "0" [] d = 1 -> "1" [] d = 2 -> "2" [] d = 3 -> "3" [] d = 4 -> "4"
      [] d = 5 -> "5" [] d = 6 -> "6" [] d = 7 -> "7" [] d = 8 -> "8" [] OTHER -> "9"

decimal(n) == IF n < 10 THEN Digit(n) ELSE decimal(n \div 10) \o Digit(n % 10)

\* '%03d' % n for n >= 0: decimal, zero-padded on the left to three characters
pad3(n) ==
    IF n < 10 THEN "00" \o decimal(n)
    ELSE IF n < 100 THEN "0" \o decimal(n)
    ELSE decimal(n)

dump(node) ==
    CASE node.k = "Name" -> "Name(id='" \o node.id \o "', ctx=" \o node.op \o "())"
      [] node.k = "Num" -> "Num(n=" \o decimal(node.n) \o ")"
      [] node.k = "Str" -> "Str(s='" \o node.id \o "')"
      [] node.k = "BinOp" ->
            "BinOp(left=" \o dump(Left(node)) \o ", op=" \o node.op \o "(), right="
                \o dump(Right(node)) \o ")"
      [] node.k = "Attribute" ->
            "Attribute(value=" \o dump(node.f[1].x[1]) \o ", attr='" \o node.id
                \o "', ctx=" \o node.op \o "())"
      [] node.k = "Subscript" ->
            "Subscript(value=" \o dump(node.f[1].x[1]) \o ", slice=Index(value="
                \o dump(node.f[2].x[1]) \o "), ctx=" \o node.op \o "())"
      [] node.k = "Call" ->
            "Call(func=" \o dump(node.f[1].x[1]) \o ", args=[" \o dump_list(node.f[2].x, 1)
                \o "], keywords=[" \o dump_list(node.f[3].x, 1) \o "])"
      [] OTHER -> node.k \o "()"

(***************************************************************************)
(* NodeTransformer and Optimizer.  The traversal state st is the record    *)
(* [nonce, dest]: Optimizer.nonce and NodeTransformer.append_dest, a stack *)
(* of the statement lists being rebuilt (the last element is the top).     *)
(* Every visit returns [node, st]: the node that replaces the visited one  *)
(* and the state it leaves behind.                                         *)
(***************************************************************************)
NewTransformer == [nonce |-> 0, dest |-> <<>>]

\* the statement appended to the outermost list being rebuilt
append_outermost(st, node) == [st EXCEPT !.dest[1] = Append(st.dest[1], node)]

\* self.append_dest[-1].append(node)
append(st, node) ==
    [st EXCEPT !.dest[Len(st.dest)] = Append(st.dest[Len(st.dest)], node)]

\* ast.parse('print(%r)' % (s,), mode='single').body, appended: one Expr statement
\* calling print on the string literal s (repr followed by parse gives s back)
append_print(st, s) ==
    append(st, ExprStmt(Call(Name("print", "Load"), <<Str(s)>>, <<>>)))

\* append_single('import copy')
append_import_copy(st) == append(st, Import(<<Alias("copy")>>))

fresh_name(n) == "t" \o pad3(n)

\* fresh_var that leaves the counter alone
fresh_var_stuck(st) == [st |-> st, name |-> fresh_name(st.nonce + 1)]

fresh_var(st) == [st |-> [st EXCEPT !.nonce = st.nonce + 1], name |-> fresh_name(st.nonce + 1)]

\* assign without its trace statement
assign_silent(st, target, value) == append(st, Assign(<<Name(target, "Store")>>, value))

assign(st, target, value) ==
    append(append_print(st, target \o " = " \o dump(value)),
           Assign(<<Name(target, "Store")>>, value))

copy_call(value) ==
    Call(Attribute(Name("copy", "Load"), "copy", "Load"), <<value>>, <<>>)

\* assign_copy that binds the value itself
assign_copy_alias(st, target, value) == assign(append_import_copy(st), target, value)

assign_copy(st, target, value) == assign(append_import_copy(st), target, copy_call(value))

RECURSIVE visit(_, _)

RECURSIVE generic_visit(_, _)

RECURSIVE visit_fields(_, _, _)

RECURSIVE visit_values(_, _, _, _, _)

RECURSIVE visit_BinOp_commutative(_, _)

\* The loop over one list field.  When the field is a statement list, new_values
\* is the list on top of append_dest; otherwise it is the local list acc.
\* The Optimizer's visits always return a node, so the branches for None and for a
\* returned sequence are never taken.
visit_values(values, i, acc, stmts, st) ==
    IF i > Len(values) THEN [acc |-> acc, st |-> st]
    ELSE LET r == visit(values[i], st)
         IN  IF stmts
             THEN visit_values(values, i + 1, acc, stmts,
                               [r.st EXCEPT !.dest[Len(r.st.dest)] = Append(@, r.node)])
             ELSE visit_values(values, i + 1, Append(acc, r.node), stmts, r.st)

\* whether generic_visit pushes the new list of a list field on append_dest
pushes_dest(values) == AllStatements(values)

visit_fields(node, i, st) ==
    IF i > Len(node.f) THEN [node |-> node, st |-> st]
    ELSE LET field == node.f[i]
         IN  IF field.list
             THEN LET stmts == pushes_dest(field.x)
                      st1 == IF stmts THEN [st EXCEPT !.dest = Append(st.dest, <<>>)] ELSE st
                      r == visit_values(field.x, 1, <<>>, stmts, st1)
                      new_values == IF stmts THEN r.st.dest[Len(r.st.dest)] ELSE r.acc
                      st2 == IF stmts
                             THEN [r.st EXCEPT !.dest = SubSeq(r.st.dest, 1, Len(r.st.dest) - 1)]
                             ELSE r.st
                  IN  visit_fields([node EXCEPT !.f[i].x = new_values], i + 1, st2)
             ELSE LET r == visit(field.x[1], st)
                  IN  visit_fields([node EXCEPT !.f[i].x = <<r.node>>], i + 1, r.st)

generic_visit(node, st) == visit_fields(node, 1, st)

\* lines 136-138: both operands are LValues
lower_copy(node, name, st) ==
    LET st1 == append_print(st, "Copy " \o dump(Left(node)))
        l == visit(Left(node), st1)
        r == visit(Right(node), assign_copy(l.st, name, l.node))
    IN  [right |-> r.node, st |-> r.st]

\* the left-only case lowered like the general one
lower_swap_plain(node, name, st) ==
    LET l == visit(Left(node), st)
        r == visit(Right(node), assign(l.st, name, l.node))
    IN  [right |-> r.node, st |-> r.st]

\* lines 140-141: only the left operand is an LValue
lower_swap(node, name, st) ==
    LET r == visit(Right(node), st)
        l == visit(Left(node), assign(r.st, name, r.node))
    IN  [right |-> l.node, st |-> l.st]

\* lines 143-144: the left operand is no LValue
lower_plain(node, name, st) ==
    LET l == visit(Left(node), st)
        r == visit(Right(node), assign(l.st, name, l.node))
    IN  [right |-> r.node, st |-> r.st]

\* combine that always adds
combine_add(node, name, right, st) ==
    LET st1 == append_print(st, "Add " \o dump(right) \o " to " \o name)
    IN  [node |-> Name(name, "Load"),
         st |-> append(st1, AugAssign(Name(name, "Store"), "Add", right))]

\* the statements of lines 145-147 and the returned reference
combine(node, name, right, st) ==
    LET st1 == append_print(st, "Add " \o dump(right) \o " to " \o name)
    IN  [node |-> Name(name, "Load"),
         st |-> append(st1, AugAssign(Name(name, "Store"), node.op, right))]

\* the combine appended ahead of the statements of the operands
visit_BinOp_commutative_first(node, st) ==
    LET fv == fresh_var(st)
        own == [fv.st EXCEPT !.dest = Append(fv.st.dest, <<>>)]
        b == IF IsLValue(Left(node))
             THEN IF IsLValue(Right(node))
                  THEN lower_copy(node, fv.name, own)
                  ELSE lower_swap(node, fv.name, own)
             ELSE lower_plain(node, fv.name, own)
        rest == b.st.dest[Len(b.st.dest)]
        c == combine(node, fv.name, b.right,
                     [b.st EXCEPT !.dest = SubSeq(b.st.dest, 1, Len(b.st.dest) - 1)])
    IN  [node |-> c.node,
         st |-> [c.st EXCEPT !.dest[Len(c.st.dest)] = c.st.dest[Len(c.st.dest)] \o rest]]

visit_BinOp_commutative(node, st) ==
    LET fv == fresh_var(st)
        b == IF IsLValue(Left(node))
             THEN IF IsLValue(Right(node))
                  THEN lower_copy(node, fv.name, fv.st)
                  ELSE lower_swap(node, fv.name, fv.st)
             ELSE lower_plain(node, fv.name, fv.st)
    IN  combine(node, fv.name, b.right, b.st)

\* a lowering method bound for every operator
has_BinOp_method_any(optype) == TRUE

\* getattr(self, 'visit_BinOp_' + optype, super().generic_visit)
has_BinOp_method(optype) == optype \in {"Add", "Mult"}

visit_BinOp(node, st) ==
    IF has_BinOp_method(node.op) THEN visit_BinOp_commutative(node, st)
    ELSE generic_visit(node, st)

visit(node, st) ==
    IF node.k = "BinOp" THEN visit_BinOp(node, st) ELSE generic_visit(node, st)

(***************************************************************************)
(* get_basename and strip_decorators                                       *)
(***************************************************************************)
RECURSIVE get_basename(_)

\* None (no branch taken) is the string "None", which is no identifier
get_basename(node) ==
    CASE node.k = "Name" -> node.id
      [] node.k = "Call" -> get_basename(node.f[1].x[1])
      [] node.k = "Attribute" -> node.id
      [] OTHER -> "None"

\* optimize.__name__
EntryName == "optimize"

Matches(decorator_list) ==
    {i \in 1..Len(decorator_list) : get_basename(decorator_list[i]) = EntryName}

Minimum(S) == CHOOSE i \in S : \A j \in S : i <= j

\* next(i for i, d in enumerate(decorator_list) if ...): the first match
first_match(decorator_list) == Minimum(Matches(decorator_list))

\* del decorator_list[:i+1], for a list with a match
strip_decorators(decorator_list) ==
    SubSeq(decorator_list, first_match(decorator_list) + 1, Len(decorator_list))

DecoratorsOf(tree) == tree.f[3].x

BodyOf(tree) == tree.f[2].x

ParamsOf(tree) == tree.f[1].x[1].f[1].x

TopLevel(mod) == mod.f[1].x

(***************************************************************************)
(* Running the compiled function.  Values live in storage cells: heap is   *)
(* the sequence of cell contents, env the sequence of bindings name ->     *)
(* cell (the last binding of a name is the current one).  With mutable     *)
(* values (array-like) an augmented assignment updates the target's cell   *)
(* in place; with immutable ones (int) it rebinds the target to a new cell.*)
(* touched collects the cells updated in place.                            *)
(***************************************************************************)
Bound(e, name) == \E i \in 1..Len(e) : e[i].name = name

Lookup(e, name) ==
    e[CHOOSE i \in 1..Len(e) : e[i].name = name /\ \A j \in (i + 1)..Len(e) : e[j].name # name].cell

Bind(e, name, cell) == Append(e, [name |-> name, cell |-> cell])

Apply(op, x, y) ==
    CASE op = "Add" -> x + y
      [] op = "Mult" -> x * y
      [] OTHER -> x - y

IsCopyCall(node) ==
    /\ node.k = "Call"
    /\ node.f[1].x[1] = Attribute(Name("copy", "Load"), "copy", "Load")
    /\ Len(node.f[2].x) = 1

IsPrintCall(node) ==
    /\ node.k = "Call"
    /\ node.f[1].x[1] = Name("print", "Load")
    /\ Len(node.f[2].x) = 1
    /\ node.f[2].x[1].k = "Str"

RECURSIVE RunnableExpr(_)

RunnableExpr(node) ==
    CASE node.k \in {"Name", "Num"} -> TRUE
      [] node.k = "BinOp" ->
            node.op \in {"Add", "Mult", "Sub"} /\ RunnableExpr(Left(node)) /\ RunnableExpr(Right(node))
      [] node.k = "Call" -> IsCopyCall(node) /\ RunnableExpr(node.f[2].x[1])
      [] OTHER -> FALSE

RunnableStmt(node) ==
    CASE node.k = "Return" -> RunnableExpr(node.f[1].x[1])
      [] node.k = "Expr" -> IsPrintCall(node.f[1].x[1])
      [] node.k = "Import" -> TRUE
      [] node.k = "Assign" ->
            Len(node.f[1].x) = 1 /\ node.f[1].x[1].k = "Name" /\ RunnableExpr(node.f[2].x[1])
      [] node.k = "AugAssign" -> node.f[1].x[1].k = "Name" /\ RunnableExpr(node.f[2].x[1])
      [] OTHER -> FALSE

\* a straight-line body over names, literals and arithmetic
Runnable(body) == \A i \in 1..Len(body) : RunnableStmt(body[i])

RECURSIVE Eval(_, _, _)

\* the cell an expression evaluates to, and the heap afterwards
Eval(node, e, h) ==
    CASE node.k = "Name" -> [cell |-> Lookup(e, node.id), heap |-> h]
      [] node.k = "Num" -> [cell |-> Len(h) + 1, heap |-> Append(h, node.n)]
      [] node.k = "BinOp" ->
            LET l == Eval(Left(node), e, h)
                r == Eval(Right(node), e, l.heap)
            IN  [cell |-> Len(r.heap) + 1,
                 heap |-> Append(r.heap, Apply(node.op, r.heap[l.cell], r.heap[r.cell]))]
      [] OTHER ->
            LET a == Eval(node.f[2].x[1], e, h)
            IN  [cell |-> Len(a.heap) + 1, heap |-> Append(a.heap, a.heap[a.cell])]

Exec(stmt, s, mutable) ==
    CASE stmt.k = "Return" ->
            LET v == Eval(stmt.f[1].x[1], s.env, s.heap)
            IN  [s EXCEPT !.heap = v.heap, !.result = v.heap[v.cell], !.returned = TRUE]
      [] stmt.k = "Expr" -> [s EXCEPT !.out = Append(s.out, stmt.f[1].x[1].f[2].x[1].id)]
      [] stmt.k = "Import" -> [s EXCEPT !.env = Bind(s.env, stmt.f[1].x[1].id, 0)]
      [] stmt.k = "Assign" ->
            LET v == Eval(stmt.f[2].x[1], s.env, s.heap)
            IN  [s EXCEPT !.heap = v.heap, !.env = Bind(s.env, stmt.f[1].x[1].id, v.cell)]
      [] OTHER ->
            LET v == Eval(stmt.f[2].x[1], s.env, s.heap)
                t == Lookup(s.env, stmt.f[1].x[1].id)
                w == Apply(stmt.op, v.heap[t], v.heap[v.cell])
            IN  IF mutable
                THEN [s EXCEPT !.heap = [v.heap EXCEPT ![t] = w], !.touched = s.touched \cup {t}]
                ELSE [s EXCEPT !.heap = Append(v.heap, w),
                               !.env = Bind(s.env, stmt.f[1].x[1].id, Len(v.heap) + 1)]

RECURSIVE Run(_, _, _, _)

Run(body, i, s, mutable) ==
    IF i > Len(body) \/ s.returned THEN s
    ELSE Run(body, i + 1, Exec(body[i], s, mutable), mutable)

RECURSIVE BindParams(_, _, _)

BindParams(params, cells, i) ==
    IF i > Len(params) THEN <<>>
    ELSE <<[name |-> params[i].id, cell |-> cells[i]]>> \o BindParams(params, cells, i + 1)

\* calling the function object tree with the argument cells a.cells in heap a.heap
CallFunction(tree, a) ==
    Run(BodyOf(tree), 1,
        [env |-> BindParams(ParamsOf(tree), a.cells, 1), heap |-> a.heap, out |-> <<>>,
         result |-> 0, returned |-> FALSE, touched |-> {}],
        a.mutable)

(***************************************************************************)
(* optimize(fn), one action per step, and a call of the returned function  *)
(***************************************************************************)
NoTree == Module(<<>>)

NoArgs == [mutable |-> FALSE, cells |-> <<>>, heap |-> <<>>]

\* lines 155-157: get_source and ast.parse; fn.body is what the source parses to
GetSource ==
    /\ pc = "start"
    /\ IF fn.kind \in {"function", "str"}
       THEN /\ module' = Module(fn.body)
            /\ pc' = "parsed"
            /\ err' = err
       ELSE /\ err' = "NotImplementedError"
            /\ pc' = "failed"
            /\ module' = module
    /\ UNCHANGED <<fn, nonce, res, retriggered, args, heap, env, out, result, touched>>

\* lines 158-159: tree, = module.body and the assertion on its class
Unpack ==
    /\ pc = "parsed"
    /\ IF Len(TopLevel(module)) # 1
       THEN err' = "ValueError" /\ pc' = "failed"
       ELSE IF TopLevel(module)[1].k # "FunctionDef"
            THEN err' = "AssertionError" /\ pc' = "failed"
            ELSE err' = err /\ pc' = "checked"
    /\ UNCHANGED <<fn, module, nonce, res, retriggered, args, heap, env, out, result, touched>>

\* line 160 with a strip_decorators that leaves the list alone when nothing matches
StripDecorators_lenient ==
    /\ pc = "checked"
    /\ LET tree == TopLevel(module)[1]
       IN  module' = IF Matches(DecoratorsOf(tree)) = {} THEN module
                     ELSE [module EXCEPT !.f[1].x[1].f[3].x = strip_decorators(DecoratorsOf(tree))]
    /\ pc' = "stripped"
    /\ UNCHANGED <<fn, err, nonce, res, retriggered, args, heap, env, out, result, touched>>

\* line 160
StripDecorators ==
    /\ pc = "checked"
    /\ LET tree == TopLevel(module)[1]
       IN  IF Matches(DecoratorsOf(tree)) = {}
           THEN /\ err' = "StopIteration"
                /\ pc' = "failed"
                /\ module' = module
           ELSE /\ module' = [module EXCEPT !.f[1].x[1].f[3].x = strip_decorators(DecoratorsOf(tree))]
                /\ pc' = "stripped"
                /\ err' = err
    /\ UNCHANGED <<fn, nonce, res, retriggered, args, heap, env, out, result, touched>>

\* line 162: Optimizer().visit(module)
Rewrite ==
    /\ pc = "stripped"
    /\ LET r == visit(module, NewTransformer)
       IN  /\ module' = r.node
           /\ nonce' = r.st.nonce
    /\ pc' = "rewritten"
    /\ UNCHANGED <<fn, err, res, retriggered, args, heap, env, out, result, touched>>

\* lines 164-167: executing the definition applies the decorators that are left; one
\* with the entry point's base name calls optimize again
Compile ==
    /\ pc = "rewritten"
    /\ res' = TopLevel(module)[1]
    /\ retriggered' = (Matches(DecoratorsOf(TopLevel(module)[1])) # {})
    /\ pc' = IF retriggered' THEN "reentered" ELSE "compiled"
    /\ UNCHANGED <<fn, module, err, nonce, args, heap, env, out, result, touched>>

\* the arguments a call of an n-parameter function may pass: n cells holding values,
\* each parameter bound to one of them (several parameters may share a cell)
ArgChoices(n) ==
    {[mutable |-> m, cells |-> c, heap |-> h] :
        m \in BOOLEAN, c \in {d \in [1..n -> 1..n] : d[1] = 1}, h \in [1..n -> Values]}

\* line 177: a call of the returned function (undecorated, straight-line body)
CallRewritten ==
    /\ pc = "compiled"
    /\ DecoratorsOf(res) = <<>>
    /\ Runnable(BodyOf(res))
    /\ Len(ParamsOf(res)) >= 1
    /\ \E a \in ArgChoices(Len(ParamsOf(res))) :
          LET s == CallFunction(res, a)
          IN  /\ args' = a
              /\ heap' = s.heap
              /\ env' = s.env
              /\ out' = s.out
              /\ result' = s.result
              /\ touched' = s.touched
    /\ pc' = "called"
    /\ UNCHANGED <<fn, module, err, nonce, res, retriggered>>

Next == GetSource \/ Unpack \/ StripDecorators \/ Rewrite \/ Compile \/ CallRewritten

InitFor(input) ==
    /\ pc = "start"
    /\ fn = input
    /\ module = NoTree
    /\ err = ""
    /\ nonce = 0
    /\ res = NoTree
    /\ retriggered = FALSE
    /\ args = NoArgs
    /\ heap = <<>>
    /\ env = <<>>
    /\ out = <<>>
    /\ result = 0
    /\ touched = {}

(***************************************************************************)
(* Inputs.  The source text of an expression is kept as its sequence of    *)
(* tokens in prefix order; ParseExpr is what ast.parse makes of it.        *)
(***************************************************************************)
BinaryTokens == {"+", "*", "-"}

WrapTokens == {"a[]", ".T", "g()"}

OpOf(tok) == CASE tok = "+" -> "Add" [] tok = "*" -> "Mult" [] OTHER -> "Sub"

RECURSIVE ParsePrefix(_)

\* the expression at the head of toks, and the tokens after it
ParsePrefix(toks) ==
    LET h == Head(toks)
    IN  IF h \in BinaryTokens
        THEN LET l == ParsePrefix(Tail(toks))
                 r == ParsePrefix(l.rest)
             IN  [node |-> BinOp(l.node, OpOf(h), r.node), rest |-> r.rest]
        ELSE IF h \in WrapTokens
        THEN LET e == ParsePrefix(Tail(toks))
             IN  [node |-> CASE h = "a[]" -> Subscript(Name("a", "Load"), e.node, "Load")
                             [] h = ".T" -> Attribute(e.node, "T", "Load")
                             [] OTHER -> Call(Name("g", "Load"), <<e.node>>, <<>>),
                  rest |-> e.rest]
        ELSE [node |-> IF h = "2" THEN Num(2) ELSE Name(h, "Load"), rest |-> Tail(toks)]

ParseExpr(toks) == ParsePrefix(toks).node

Marker == Name(EntryName, "Load")

Source(kind, body) == [kind |-> kind, body |-> body]

\* def f(a, b): <body>, decorated with @optimize
Fun(body) == FunctionDef("f", <<Arg("a"), Arg("b")>>, body, <<Marker>>)

\* def f(a): <body>, decorated with @optimize
Fun1(body) == FunctionDef("f", <<Arg("a")>>, body, <<Marker>>)

RECURSIVE ArithOfSize(_)

\* the expressions over a, b and 2 with exactly n operations + and *
ArithOfSize(n) ==
    IF n = 0 THEN {<<"a">>, <<"b">>, <<"2">>}
    ELSE UNION {{<<op>> \o l \o r : l \in ArithOfSize(i), r \in ArithOfSize(n - 1 - i),
                                    op \in {"+", "*"}} : i \in 0..(n - 1)}

Arith == UNION {ArithOfSize(n) : n \in 0..MaxOps}

\* spec section 8: f(x): return x + x
XPlusX == BinOp(Name("x", "Load"), "Add", Name("x", "Load"))

Scenario == Source("function", <<FunctionDef("f", <<Arg("x")>>, <<Return(XPlusX)>>, <<Marker>>)>>)

Init ==
    \/ \E c \in Arith : InitFor(Source("function", <<Fun(<<Return(ParseExpr(c))>>)>>))
    \/ InitFor(Scenario)

Spec == Init /\ [][Next]_vars

RECURSIVE TreeOfSize(_)

\* the expressions over a and 2 with exactly n constructors: the operations + and -,
\* and a subscript index, an attribute base or a call argument around an expression
TreeOfSize(n) ==
    IF n = 0 THEN {<<"a">>, <<"2">>}
    ELSE UNION {{<<op>> \o l \o r : l \in TreeOfSize(i), r \in TreeOfSize(n - 1 - i),
                                    op \in {"+", "-"}} : i \in 0..(n - 1)}
         \cup {<<w>> \o e : e \in TreeOfSize(n - 1), w \in WrapTokens}

\* line 175: x * x + x
MainTest == <<"+", "*", "a", "a", "a">>

Trees == UNION {TreeOfSize(n) : n \in 0..MaxSize} \cup {MainTest}

InitTree == \E c \in Trees : InitFor(Source("function", <<Fun1(<<Return(ParseExpr(c))>>)>>))

SpecTree == InitTree /\ [][Next]_vars

\* a statement list in source order: "{" statement ... "}", a statement being
\* set e (a = e), ret e (return e), if e {..} {..} or while e {..}
RECURSIVE ParseList(_)

RECURSIVE ParseStmt(_)

\* the statements up to the closing brace, and the tokens after it
ParseList(toks) ==
    IF Head(toks) = "}" THEN [nodes |-> <<>>, rest |-> Tail(toks)]
    ELSE LET s1 == ParseStmt(toks)
             more == ParseList(s1.rest)
         IN  [nodes |-> <<s1.node>> \o more.nodes, rest |-> more.rest]

ParseStmt(toks) ==
    LET h == Head(toks)
        e == ParsePrefix(Tail(toks))
    IN  IF h = "set"
        THEN [node |-> Assign(<<Name("a", "Store")>>, e.node), rest |-> e.rest]
        ELSE IF h = "ret"
        THEN [node |-> Return(e.node), rest |-> e.rest]
        ELSE LET body == ParseList(Tail(e.rest))
             IN  IF h = "while"
                 THEN [node |-> While(e.node, body.nodes, <<>>), rest |-> body.rest]
                 ELSE LET orelse == ParseList(Tail(body.rest))
                      IN  [node |-> If(e.node, body.nodes, orelse.nodes), rest |-> orelse.rest]

ParseBody(toks) == ParseList(toks \o <<"}">>).nodes

\* a, a + a, a - 2 * a, a + (a + a)
BlockExprs == {<<"a">>, <<"+", "a", "a">>, <<"-", "a", "*", "2", "a">>, <<"+", "a", "+", "a", "a">>}

SimpleStmts == {<<"set">> \o e : e \in BlockExprs} \cup {<<"ret", "+", "a", "a">>}

RECURSIVE ListOfSize(_)

RECURSIVE StmtOfSize(_)

\* the statement lists of n statements in all, nested ones counted
ListOfSize(n) ==
    IF n = 0 THEN {<<>>}
    ELSE UNION {{s1 \o l : s1 \in StmtOfSize(m), l \in ListOfSize(n - m)} : m \in 1..n}

StmtOfSize(m) ==
    IF m = 1 THEN SimpleStmts
    ELSE UNION {{<<"if">> \o e \o <<"{">> \o b \o <<"}", "{">> \o o \o <<"}">> :
                    e \in BlockExprs, b \in ListOfSize(i), o \in ListOfSize(m - 1 - i)} :
                i \in 1..(m - 1)}
         \cup {<<"while">> \o e \o <<"{">> \o b \o <<"}">> :
                    e \in BlockExprs, b \in ListOfSize(m - 1)}

Blocks == UNION {ListOfSize(n) : n \in 1..MaxStmts}

InitBlock == \E c \in Blocks : InitFor(Source("function", <<Fun1(ParseBody(c))>>))

SpecBlock == InitBlock /\ [][Next]_vars

\* the decorator lines a definition may carry, by their source text
DecoratorTokens == {"optimize", "foo", "m.optimize", "optimize()", "d[0]"}

ParseDecorator(tok) ==
    CASE tok = "m.optimize" -> Attribute(Name("m", "Load"), "optimize", "Load")
      [] tok = "optimize()" -> Call(Name("optimize", "Load"), <<>>, <<>>)
      [] tok = "d[0]" -> Subscript(Name("d", "Load"), Num(0), "Load")
      [] OTHER -> Name(tok, "Load")

DecoratorLines == UNION {[1..n -> DecoratorTokens] : n \in 0..MaxDecorators}

\* def f(a, b): return a + b under the given decorator lines
Decorated(lines) ==
    FunctionDef("f", <<Arg("a"), Arg("b")>>,
                <<Return(BinOp(Name("a", "Load"), "Add", Name("b", "Load")))>>,
                [i \in 1..Len(lines) |-> ParseDecorator(lines[i])])

\* what optimize may be handed: a function, whose source is its definition with its
\* decorator lines, any source text, or some other object
InitEntry ==
    \/ \E kind \in {"function", "str"} : \E lines \in DecoratorLines :
          InitFor(Source(kind, <<Decorated(lines)>>))
    \/ \E lines \in DecoratorLines :
          InitFor(Source("str", <<Decorated(lines), Decorated(<<>>)>>))
    \/ InitFor(Source("str", <<>>))
    \/ InitFor(Source("str", <<Assign(<<Name("a", "Store")>>, Num(2))>>))
    \/ InitFor(Source("str", <<ExprStmt(Name("a", "Load"))>>))
    \/ InitFor(Source("other", <<>>))

SpecEntry == InitEntry /\ [][Next]_vars

(***************************************************************************)
(* Properties.  Original is the function definition as parsed, before      *)
(* optimize touches it; Rebuilt is the one the pass leaves.                *)
(***************************************************************************)
Original == fn.body[1]

Rebuilt == TopLevel(module)[1]

IsReturnOf(tree) == Len(BodyOf(tree)) = 1 /\ BodyOf(tree)[1].k = "Return"

ReturnExpr(tree) == BodyOf(tree)[1].f[1].x[1]

RECURSIVE IsArith(_)

\* built from names and integer literals with + and * only
IsArith(e) ==
    CASE e.k \in {"Name", "Num"} -> TRUE
      [] e.k = "BinOp" -> e.op \in {"Add", "Mult"} /\ IsArith(Left(e)) /\ IsArith(Right(e))
      [] OTHER -> FALSE

\* the value the call passed for a parameter
ArgValue(name) ==
    LET i == CHOOSE j \in 1..Len(ParamsOf(Original)) : ParamsOf(Original)[j].id = name
    IN  args.heap[args.cells[i]]

RECURSIVE Value(_)

\* e evaluated directly on the call's arguments
Value(e) ==
    CASE e.k = "Name" -> ArgValue(e.id)
      [] e.k = "Num" -> e.n
      [] OTHER ->
            IF e.op = "Add" THEN Value(Left(e)) + Value(Right(e))
            ELSE IF e.op = "Mult" THEN Value(Left(e)) * Value(Right(e))
            ELSE Value(Left(e)) - Value(Right(e))

ArithCall == pc = "called" /\ IsReturnOf(Original) /\ IsArith(ReturnExpr(Original))

\* C2: for a body `return e`, e over names and integer literals with + and *, the
\* rewritten function returns the value of e on the same arguments
C2_SemanticEquivalence == ArithCall => result = Value(ReturnExpr(Original))

\* a call with aliased mutable arguments of a function with two nested operations
C2_Witness ==
    /\ ArithCall
    /\ nonce = 2
    /\ args.mutable
    /\ args.cells = <<1, 1>>
    /\ ReturnExpr(Original).op = "Add"
    /\ Left(ReturnExpr(Original)).k = "Name"
    /\ Right(ReturnExpr(Original)).k = "BinOp"
    /\ result = Value(ReturnExpr(Original))

RECURSIVE OnlyNames(_)

OnlyNames(e) ==
    CASE e.k = "Name" -> TRUE
      [] e.k = "BinOp" -> e.op \in {"Add", "Mult"} /\ OnlyNames(Left(e)) /\ OnlyNames(Right(e))
      [] OTHER -> FALSE

\* C3: for an expression over bound names with + and *, no in-place combine is
\* applied to a cell an argument was bound to, and after the call every argument
\* cell holds its original value
C3_NonAliasing ==
    (ArithCall /\ OnlyNames(ReturnExpr(Original))) =>
        /\ touched \cap (1..Len(args.heap)) = {}
        /\ \A c \in 1..Len(args.heap) : heap[c] = args.heap[c]

\* `a + b` called with a and b bound to the same mutable cell: a combine ran in place
C3_Witness ==
    /\ ArithCall
    /\ ReturnExpr(Original) = BinOp(Name("a", "Load"), "Add", Name("b", "Load"))
    /\ args.mutable
    /\ args.cells = <<1, 1>>
    /\ touched # {}
    /\ result = 2 * args.heap[1]

IsXPlusX == Original.id = "f" /\ IsReturnOf(Original) /\ ReturnExpr(Original) = XPlusX

CopyLineX == "Copy Name(id='x', ctx=Load())"

AssignLineX ==
    "t001 = Call(func=Attribute(value=Name(id='copy', ctx=Load()), attr='copy', ctx=Load()), "
        \o "args=[Name(id='x', ctx=Load())], keywords=[])"

AddLineX == "Add Name(id='x', ctx=Load()) to t001"

\* C5 as stated: one call of the rewritten `f(x): return x + x` emits exactly two
\* trace lines, the Copy line and then the Add line
C5_TwoTraceLines == (pc = "called" /\ IsXPlusX) => out = <<CopyLineX, AddLineX>>

\* C5 as amended: the call emits exactly three trace lines: the Copy line, the line
\* of the temporary's assignment, and the Add line
C5_ThreeTraceLines == (pc = "called" /\ IsXPlusX) => out = <<CopyLineX, AssignLineX, AddLineX>>

C5_Witness == pc = "called" /\ IsXPlusX /\ args.mutable /\ Len(out) = 3 /\ result = 2 * args.heap[1]

(***************************************************************************)
(* Reading a rebuilt statement list                                        *)
(***************************************************************************)
RECURSIVE Kids(_, _)

\* the children of a node, field after field
Kids(f, i) == IF i > Len(f) THEN <<>> ELSE f[i].x \o Kids(f, i + 1)

RECURSIVE Nodes(_)

RECURSIVE NodesIn(_, _)

\* every node of a tree, in pre-order
Nodes(X) == <<X>> \o NodesIn(Kids(X.f, 1), 1)

NodesIn(xs, i) == IF i > Len(xs) THEN <<>> ELSE Nodes(xs[i]) \o NodesIn(xs, i + 1)

CountOf(xs, S) == Cardinality({i \in 1..Len(xs) : xs[i] \in S})

IsCommutative(X) == X.k = "BinOp" /\ X.op \in {"Add", "Mult"}

BothLValues(X) == IsCommutative(X) /\ IsLValue(Left(X)) /\ IsLValue(Right(X))

\* the Add/Mult operations of a tree
Lowered(X) == {i \in 1..Len(Nodes(X)) : IsCommutative(Nodes(X)[i])}

CopyCases(X) == {i \in 1..Len(Nodes(X)) : BothLValues(Nodes(X)[i])}

IsTrace(stmt) == stmt.k = "Expr" /\ IsPrintCall(stmt.f[1].x[1])

TraceText(stmt) == stmt.f[1].x[1].f[2].x[1].id

StartsWith(text, prefix) ==
    Len(text) >= Len(prefix) /\ SubSeq(text, 1, Len(prefix)) = prefix

IsCopyTrace(stmt) == IsTrace(stmt) /\ StartsWith(TraceText(stmt), "Copy ")

IsTempName(id) == \E n \in 1..nonce : id = "t" \o pad3(n)

AssignsTo(stmt, t) == stmt.k = "Assign" /\ stmt.f[1].x = <<Name(t, "Store")>>

CombinesInto(stmt, t) == stmt.k = "AugAssign" /\ stmt.f[1].x[1] = Name(t, "Store")

AssignPos(H, t) == CHOOSE p \in 1..Len(H) : AssignsTo(H[p], t)

AugPos(H, t) == CHOOSE p \in 1..Len(H) : CombinesInto(H[p], t)

Assigned(H, t) == H[AssignPos(H, t)].f[2].x[1]

Combined(H, t) == H[AugPos(H, t)].f[2].x[1]

\* the temporaries a statement list assigns
Temps(H) == {H[p].f[1].x[1].id : p \in {q \in 1..Len(H) : H[q].k = "Assign" /\ IsTempName(H[q].f[1].x[1].id)}}

\* the temporaries an expression reads
TempsRead(E) ==
    {Nodes(E)[i].id : i \in {j \in 1..Len(Nodes(E)) :
                                Nodes(E)[j].k = "Name" /\ Nodes(E)[j].op = "Load"
                                /\ IsTempName(Nodes(E)[j].id)}}

RECURSIVE Inside(_, _)

\* the temporaries of the operations nested in the operands of t's operation
Inside(H, t) ==
    LET direct == TempsRead(Assigned(H, t)) \cup TempsRead(Combined(H, t))
    IN  direct \cup UNION {Inside(H, u) : u \in direct}

RECURSIVE RewriteOf(_, _, _)

RECURSIVE Lowers(_, _, _)

\* Xr is X with every outermost Add/Mult operation replaced by a reference to a
\* temporary that the statements H compute as the claimed strategy says
RewriteOf(Xr, X, H) ==
    IF IsCommutative(X)
    THEN Xr.k = "Name" /\ Xr.op = "Load" /\ Xr.f = <<>> /\ Lowers(Xr.id, X, H)
    ELSE /\ Xr.k = X.k /\ Xr.id = X.id /\ Xr.op = X.op /\ Xr.n = X.n
         /\ Len(Xr.f) = Len(X.f)
         /\ \A i \in 1..Len(X.f) :
               /\ Xr.f[i].list = X.f[i].list
               /\ Len(Xr.f[i].x) = Len(X.f[i].x)
               /\ \A j \in 1..Len(X.f[i].x) : RewriteOf(Xr.f[i].x[j], X.f[i].x[j], H)

Lowers(t, X, H) ==
    /\ \E p \in 1..Len(H) : AssignsTo(H[p], t)
    /\ \E q \in 1..Len(H) : CombinesInto(H[q], t)
    /\ H[AugPos(H, t)].op = X.op
    /\ LET A == Assigned(H, t)
           C == Combined(H, t)
       IN  IF IsLValue(Left(X)) /\ IsLValue(Right(X))
           THEN /\ IsCopyCall(A)
                /\ RewriteOf(A.f[2].x[1], Left(X), H)
                /\ RewriteOf(C, Right(X), H)
           ELSE IF IsLValue(Left(X))
           THEN ~IsCopyCall(A) /\ RewriteOf(A, Right(X), H) /\ RewriteOf(C, Left(X), H)
           ELSE ~IsCopyCall(A) /\ RewriteOf(A, Left(X), H) /\ RewriteOf(C, Right(X), H)

\* the statements hoisted in front of the return of a rebuilt `return e` body
Hoisted == SubSeq(BodyOf(Rebuilt), 1, Len(BodyOf(Rebuilt)) - 1)

\* the expression the rebuilt body returns
Returned == BodyOf(Rebuilt)[Len(BodyOf(Rebuilt))].f[1].x[1]

ReturnRewritten == pc = "rewritten" /\ IsReturnOf(Original)

\* C4: every Add/Mult operation is lowered by the strategy its operands select: a
\* copy.copy of the rewritten left with the rewritten right combined in when both
\* are LValues, the rewritten right with the rewritten left combined in when only
\* the left is, the rewritten left with the rewritten right combined in otherwise;
\* a Copy trace, an import and a copy.copy assignment exist exactly per both-LValue
\* operation
C4_CopyStrategy ==
    ReturnRewritten =>
        /\ BodyOf(Rebuilt)[Len(BodyOf(Rebuilt))].k = "Return"
        /\ RewriteOf(Returned, ReturnExpr(Original), Hoisted)
        /\ Cardinality({p \in 1..Len(Hoisted) : IsCopyTrace(Hoisted[p])})
              = Cardinality(CopyCases(ReturnExpr(Original)))
        /\ Cardinality({p \in 1..Len(Hoisted) :
                            Hoisted[p].k = "Assign" /\ IsCopyCall(Hoisted[p].f[2].x[1])})
              = Cardinality(CopyCases(ReturnExpr(Original)))
        /\ Cardinality({p \in 1..Len(Hoisted) : Hoisted[p].k = "Import"})
              = Cardinality(CopyCases(ReturnExpr(Original)))

\* `a + (a + a)`: an LValue left operand, and a right operand that is a both-LValue
\* operation; the outer temporary starts from the inner one, with no second Copy trace
C4_Witness ==
    /\ ReturnRewritten
    /\ IsCommutative(ReturnExpr(Original))
    /\ IsLValue(Left(ReturnExpr(Original)))
    /\ IsCommutative(Right(ReturnExpr(Original)))
    /\ BothLValues(Right(ReturnExpr(Original)))
    /\ Cardinality({p \in 1..Len(Hoisted) : IsCopyTrace(Hoisted[p])}) = 1
    /\ Assigned(Hoisted, "t001") = Name("t002", "Load")
    /\ Combined(Hoisted, "t001") = Left(ReturnExpr(Original))

\* the original operations that H lowers into the temporary t
OperationsOf(H, t) ==
    {X \in {Nodes(ReturnExpr(Original))[i] : i \in Lowered(ReturnExpr(Original))} : Lowers(t, X, H)}

\* the position of the first statement emitted for t's operation: its Copy trace
\* when it copies (the last one with its text before its assignment), else the
\* trace of its assignment
FirstPos(H, t) ==
    IF IsCopyCall(Assigned(H, t))
    THEN LET P == {p \in 1..(AssignPos(H, t) - 1) :
                        /\ IsTrace(H[p])
                        /\ \E X \in OperationsOf(H, t) : TraceText(H[p]) = "Copy " \o dump(Left(X))}
         IN  CHOOSE p \in P : \A q \in P : q <= p
    ELSE AssignPos(H, t) - 1

\* the traces of a statement list, in order
TracesOf(H) ==
    LET P == {p \in 1..Len(H) : IsTrace(H[p])}
        Nth(i) == CHOOSE p \in P : Cardinality({q \in P : q < p}) = i - 1
    IN  [i \in 1..Cardinality(P) |-> TraceText(H[Nth(i)])]

MainTestTraces ==
    << "Copy Name(id='a', ctx=Load())",
       "t002 = Call(func=Attribute(value=Name(id='copy', ctx=Load()), attr='copy', ctx=Load()), "
           \o "args=[Name(id='a', ctx=Load())], keywords=[])",
       "Add Name(id='a', ctx=Load()) to t002",
       "t001 = Name(id='t002', ctx=Load())",
       "Add Name(id='a', ctx=Load()) to t001" >>

IsMainTest == ReturnExpr(Original) = ParseExpr(MainTest)

\* C6 as stated: every statement hoisted for an operation nested in an operand of
\* another one, up to its combine, precedes every statement emitted for the outer
\* one, from its first trace on
C6_InnerBeforeOuter ==
    ReturnRewritten =>
        \A t \in Temps(Hoisted) : \A u \in Inside(Hoisted, t) :
            AugPos(Hoisted, u) < FirstPos(Hoisted, t)

\* C6 as amended: every statement hoisted for the inner operation precedes the outer
\* operation's combine trace and combine statement; for x * x + x the traces are the
\* inner Copy, assignment and combine traces, then the outer assignment and combine
\* traces
C6_InnerBeforeOuterCombine ==
    ReturnRewritten =>
        /\ \A t \in Temps(Hoisted) :
              /\ IsTrace(Hoisted[AugPos(Hoisted, t) - 1])
              /\ TraceText(Hoisted[AugPos(Hoisted, t) - 1])
                    = "Add " \o dump(Combined(Hoisted, t)) \o " to " \o t
              /\ \A u \in Inside(Hoisted, t) :
                    AugPos(Hoisted, u) < AugPos(Hoisted, t) - 1
        /\ IsMainTest => TracesOf(Hoisted) = MainTestTraces

\* an operation in the subscript index of the right operand of a both-LValue outer
\* operation: its statements follow the outer assignment and precede the outer combine
C6_Witness ==
    /\ ReturnRewritten
    /\ BothLValues(ReturnExpr(Original))
    /\ Right(ReturnExpr(Original)).k = "Subscript"
    /\ IsCommutative(Right(ReturnExpr(Original)).f[2].x[1])
    /\ Inside(Hoisted, "t001") = {"t002"}
    /\ AssignPos(Hoisted, "t001") < AssignPos(Hoisted, "t002")
    /\ AugPos(Hoisted, "t002") < AugPos(Hoisted, "t001") - 1

OriginalStripped ==
    [Module(fn.body) EXCEPT !.f[1].x[1].f[3].x = strip_decorators(DecoratorsOf(Original))]

\* C7: a tree with no Add/Mult operation comes out of the pass identical, with no
\* temporary allocated; a non-commutative operation stays in place as the same
\* operation over its rewritten operands, each Add/Mult inside them lowered
C7_Passthrough ==
    ReturnRewritten =>
        /\ Lowered(OriginalStripped) = {} => (module = OriginalStripped /\ nonce = 0)
        /\ nonce = Cardinality(Lowered(OriginalStripped))
        /\ (ReturnExpr(Original).k = "BinOp" /\ ~IsCommutative(ReturnExpr(Original))) =>
              /\ Returned.k = "BinOp"
              /\ Returned.op = ReturnExpr(Original).op
              /\ RewriteOf(Returned, ReturnExpr(Original), Hoisted)

\* `x - 1`-like: a subtraction over a nested subtraction, a call or a subscript
C7_Witness ==
    /\ ReturnRewritten
    /\ ReturnExpr(Original).k = "BinOp"
    /\ ReturnExpr(Original).op = "Sub"
    /\ Left(ReturnExpr(Original)).k = "Subscript"
    /\ Right(ReturnExpr(Original)).k = "BinOp"
    /\ Lowered(OriginalStripped) = {}
    /\ module = OriginalStripped
    /\ nonce = 0

(***************************************************************************)
(* Statement lists at any depth                                            *)
(***************************************************************************)
IsStmtList(field) == field.list /\ AllStatements(field.x)

RECURSIVE OwnKids(_, _)

\* the children of a statement outside its nested statement lists
OwnKids(f, i) ==
    IF i > Len(f) THEN <<>>
    ELSE (IF IsStmtList(f[i]) THEN <<>> ELSE f[i].x) \o OwnKids(f, i + 1)

\* the nodes of a statement's own expressions
OwnNodes(S) == NodesIn(OwnKids(S.f, 1), 1)

OwnCount(S, copies) ==
    LET ns == OwnNodes(S)
    IN  Cardinality({i \in 1..Len(ns) :
                        IF copies THEN BothLValues(ns[i]) ELSE IsCommutative(ns[i])})

\* the names of the function as written
OriginalNames ==
    LET ns == Nodes(Original)
    IN  {ns[i].id : i \in {j \in 1..Len(ns) : ns[j].k = "Name"}}

IsFreshName(id) == id \notin OriginalNames \cup {"print", "copy"}

\* a statement the pass synthesized: a trace, an import, or an assignment or
\* combine of a name the function as written does not use
IsSynthesized(stmt) ==
    \/ stmt.k = "Import"
    \/ stmt.k \in {"Assign", "AugAssign"} /\ stmt.f[1].x[1].k = "Name" /\ IsFreshName(stmt.f[1].x[1].id)
    \/ IsTrace(stmt)

\* the i-th smallest of the positions K (0 for i = 0)
KeptPos(K, i) ==
    IF i = 0 THEN 0 ELSE CHOOSE p \in K : Cardinality({q \in K : q < p}) = i - 1

RECURSIVE SplicedFrom(_, _)

RECURSIVE StmtRewriteOf(_, _, _)

\* new is H1, S1', ..., Hn, Sn' for old = S1, ..., Sn: Si' is the rewritten Si, and
\* Hi holds exactly the statements that lower the operations of Si's own expressions
SplicedFrom(new, old) ==
    LET K == {p \in 1..Len(new) : ~IsSynthesized(new[p])}
    IN  /\ Cardinality(K) = Len(old)
        /\ Len(old) = 0 => new = <<>>
        /\ Len(old) > 0 => KeptPos(K, Len(old)) = Len(new)
        /\ \A i \in 1..Len(old) :
              LET p == KeptPos(K, i)
                  H == SubSeq(new, KeptPos(K, i - 1) + 1, p - 1)
                  ops == OwnCount(old[i], FALSE)
              IN  /\ Len(H) = 4 * ops + 2 * OwnCount(old[i], TRUE)
                  /\ Cardinality({q \in 1..Len(H) : H[q].k = "Assign"}) = ops
                  /\ StmtRewriteOf(new[p], old[i], H)

StmtRewriteOf(Sr, S, H) ==
    /\ Sr.k = S.k /\ Sr.id = S.id /\ Sr.op = S.op /\ Sr.n = S.n
    /\ Len(Sr.f) = Len(S.f)
    /\ \A i \in 1..Len(S.f) :
          /\ Sr.f[i].list = S.f[i].list
          /\ IF IsStmtList(S.f[i])
             THEN SplicedFrom(Sr.f[i].x, S.f[i].x)
             ELSE /\ Len(Sr.f[i].x) = Len(S.f[i].x)
                  /\ \A j \in 1..Len(S.f[i].x) : RewriteOf(Sr.f[i].x[j], S.f[i].x[j], H)

\* C1: every rebuilt statement list, at any depth, is H1, S1', ..., Hn, Sn': the
\* original statements rewritten, in their order, each preceded by exactly the
\* statements hoisted for its own expressions; nothing lands in an outer or
\* sibling list
C1_Splicing ==
    pc = "rewritten" =>
        /\ Len(TopLevel(module)) = 1
        /\ SplicedFrom(BodyOf(Rebuilt), BodyOf(Original))

\* a loop whose test and whose nested if's test both hold an operation: one group is
\* hoisted in front of the loop, the other inside the loop body in front of the if
C1_Witness ==
    /\ pc = "rewritten"
    /\ Len(BodyOf(Original)) = 1
    /\ BodyOf(Original)[1].k = "While"
    /\ OwnCount(BodyOf(Original)[1], FALSE) = 1
    /\ BodyOf(Original)[1].f[2].x[1].k = "If"
    /\ OwnCount(BodyOf(Original)[1].f[2].x[1], TRUE) = 1
    /\ Len(BodyOf(Rebuilt)) = 5
    /\ Len(BodyOf(Rebuilt)[5].f[2].x) = 7
    /\ BodyOf(Rebuilt)[5].f[2].x[7].k = "If"

\* the statements of a tree, in pre-order
Statements(tree) ==
    LET all == Nodes(tree)
        P == {p \in 1..Len(all) : IsStatement(all[p])}
        Nth(i) == CHOOSE p \in P : Cardinality({q \in P : q < p}) = i - 1
    IN  [i \in 1..Cardinality(P) |-> all[Nth(i)]]

\* the names a statement's own expressions mention
Mentioned(stmt) ==
    LET ns == OwnNodes(stmt)
    IN  {ns[i].id : i \in {j \in 1..Len(ns) : ns[j].k = "Name"}}

\* the names a statement's own expressions read
Loaded(stmt) ==
    LET ns == OwnNodes(stmt)
    IN  {ns[i].id : i \in {j \in 1..Len(ns) : ns[j].k = "Name" /\ ns[j].op = "Load"}}

\* C10: the temporaries of one pass are as many as the lowered operations and
\* pairwise distinct, each one the target of exactly one plain assignment, which
\* precedes every other statement that mentions the name
C10_Temporaries ==
    pc = "rewritten" =>
        LET S == Statements(Rebuilt)
            names == OriginalNames \cup {"print", "copy"}
            M == [q \in 1..Len(S) |-> Mentioned(S[q]) \ names]
            L == [q \in 1..Len(S) |-> Loaded(S[q]) \ names]
            A == {p \in 1..Len(S) : S[p].k = "Assign" /\ S[p].f[1].x[1].k = "Name" /\ S[p].f[1].x[1].id \notin names}
            T(p) == S[p].f[1].x[1].id
        IN  /\ Cardinality(A) = Cardinality(Lowered(Original))
            /\ nonce = Cardinality(A)
            /\ \A p \in A : \A q \in A : p # q => T(p) # T(q)
            /\ \A p \in A :
                  /\ T(p) \notin L[p]
                  /\ \A q \in 1..Len(S) : (q # p /\ T(p) \in M[q]) => p < q
                  /\ \E q \in 1..Len(S) : CombinesInto(S[q], T(p))
                  /\ \E q \in 1..Len(S) : T(p) \in L[q]
            /\ \A q \in 1..Len(S) : M[q] \subseteq {T(p) : p \in A}

\* three temporaries in nested blocks: two for the if's test, one inside its body
C10_Witness ==
    /\ pc = "rewritten"
    /\ nonce = 3
    /\ Len(BodyOf(Original)) = 1
    /\ BodyOf(Original)[1].k = "If"
    /\ OwnCount(BodyOf(Original)[1], FALSE) = 2
    /\ Len(BodyOf(Original)[1].f[2].x) = 1
    /\ AssignsTo(BodyOf(Rebuilt)[Len(BodyOf(Rebuilt))].f[2].x[2], "t003")

(***************************************************************************)
(* The entry point: stripping the decorators, and the ways it fails        *)
(***************************************************************************)
\* the source parses to exactly one top-level function definition
OneDefinition == Len(fn.body) = 1 /\ fn.body[1].k = "FunctionDef"

Stripped == pc \in {"stripped", "rewritten", "compiled", "reentered", "called"}

\* C8: once stripped, the decorator list is what followed a decorator with the entry
\* point's base name, no decorator left has that base name, and compiling the rebuilt
\* definition does not invoke the rewrite again
C8_ReentryGuard ==
    Stripped =>
        LET before == DecoratorsOf(Original)
            after == DecoratorsOf(Rebuilt)
        IN  /\ \E i \in Matches(before) : after = SubSeq(before, i + 1, Len(before))
            /\ Matches(after) = {}
            /\ ~retriggered

Untouched ==
    /\ module = Module(fn.body)
    /\ nonce = 0
    /\ res = NoTree
    /\ ~retriggered
    /\ out = <<>>
    /\ result = 0

Parsed == fn.kind \in {"function", "str"} /\ pc # "start"

\* C9 as stated: a source that is not exactly one function definition fails with
\* the assertion, one without a matching decorator with StopIteration; either way
\* before anything is rewritten, compiled or returned
C9_AssertionOnAnyShape ==
    /\ (Parsed /\ pc # "parsed" /\ ~OneDefinition) =>
          pc = "failed" /\ err = "AssertionError" /\ Untouched
    /\ (Parsed /\ pc \notin {"parsed", "checked"} /\ OneDefinition
            /\ Matches(DecoratorsOf(Original)) = {}) =>
          pc = "failed" /\ err = "StopIteration" /\ Untouched

\* C9, amended: a source with no or several top-level statements fails with the
\* ValueError of the unpacking, a single statement that is not a function definition
\* with the assertion, a definition without a matching decorator with StopIteration;
\* every time before anything is rewritten, compiled or returned, the tree as parsed
C9_FailFast ==
    /\ (Parsed /\ pc # "parsed" /\ Len(fn.body) # 1) =>
          pc = "failed" /\ err = "ValueError" /\ Untouched
    /\ (Parsed /\ pc # "parsed" /\ Len(fn.body) = 1 /\ ~OneDefinition) =>
          pc = "failed" /\ err = "AssertionError" /\ Untouched
    /\ (Parsed /\ pc \notin {"parsed", "checked"} /\ OneDefinition
            /\ Matches(DecoratorsOf(Original)) = {}) =>
          pc = "failed" /\ err = "StopIteration" /\ Untouched

\* source text of a definition under two decorators, neither of them the marker
C9_Witness ==
    /\ pc = "failed"
    /\ err = "StopIteration"
    /\ fn.kind = "str"
    /\ OneDefinition
    /\ Len(DecoratorsOf(Original)) = 2
    /\ get_basename(DecoratorsOf(Original)[1]) = "foo"
    /\ get_basename(DecoratorsOf(Original)[2]) = "None"

====
